---------------------------- MODULE Spec2Model ----------------------------
(***************************************************************************)
(* Model of the metrics engine of vde.py: the working-day calendar         *)
(* (calcular_dias_laborables, in its two implementations) and the class    *)
(* KPICalculator (goal attainment, basic KPIs, weekly and monthly          *)
(* projection).                                                            *)
(*                                                                         *)
(* Numbers.  Python and numpy numbers are modelled as exact rationals      *)
(* [n |-> numerator, d |-> denominator], normalised (d > 0, lowest terms), *)
(* so 5.5 is [n |-> 11, d |-> 2].  d = 0 stands for numpy's inf/nan.       *)
(* Dates.  A datetime.date is its ordinal: the number of days since        *)
(* 2023-01-01, a Sunday.  timedelta arithmetic is integer arithmetic.      *)
(***************************************************************************)
EXTENDS Integers, Sequences, FiniteSets

VARIABLES
    hoy,        \* datetime.now().date(): the clock the projections read
    sales_df,   \* the sales table handed to the engine ([cols, rows])
    budget_df,  \* the budget table the engine was constructed with ([cols, rows])
    session_state, \* st.session_state: a function from the keys present to their values
    last        \* the last call made: operation, arguments, out = [ret, st]

vars == <<hoy, sales_df, budget_df, session_state, last>>

(***************************** bounds *************************************)
MaxDay  == 16   \* calendar specification: start and end range over 0..MaxDay
MaxHoy  == 35   \* engine specification: the clock runs over 0..MaxHoy
MaxRows == 2    \* engine specification: a table has at most MaxRows rows
MaxFecha == 760 \* month specification: the clock runs over 0..MaxFecha

(***************************** numbers ************************************)
RECURSIVE Gcd(_, _)
Gcd(a, b) == IF b = 0 THEN a ELSE Gcd(b, a % b)

Abs(x) == IF x < 0 THEN -x ELSE x

Sign(x) == IF x > 0 THEN 1 ELSE IF x < 0 THEN -1 ELSE 0

\* the number n/d; d = 0 is numpy's float division by zero (inf, -inf or nan)
Q(n, d) ==
    IF d = 0 THEN [n |-> Sign(n), d |-> 0]
    ELSE LET g == Gcd(Abs(n), Abs(d))
         IN  [n |-> (Sign(d) * n) \div g, d |-> Abs(d) \div g]

Num(i) == Q(i, 1)

Add(a, b) == Q(a.n * b.d + b.n * a.d, a.d * b.d)

Mul(a, b) == Q(a.n * b.n, a.d * b.d)

Div(a, b) == Q(a.n * b.d, a.d * b.n)

Gt(a, b) == a.n * b.d > b.n * a.d

Min(a, b) == IF a < b THEN a ELSE b

(****************************** dates *************************************)
\* date.weekday(): Monday is 0 and Sunday is 6; day 0 (2023-01-01) is a Sunday
weekday(n) == (n + 6) % 7

IsLeap(y) == (y % 4 = 0) /\ ((y % 100 # 0) \/ (y % 400 = 0))

DaysInMonth(y, m) ==
    IF m = 2 THEN (IF IsLeap(y) THEN 29 ELSE 28)
    ELSE IF m \in {4, 6, 9, 11} THEN 30 ELSE 31

\* the date (year, month, day) of the n-th day counted from (y, m, 1)
RECURSIVE DateFrom(_, _, _)
DateFrom(y, m, n) ==
    IF n < DaysInMonth(y, m) THEN [y |-> y, m |-> m, d |-> n + 1]
    ELSE IF m = 12 THEN DateFrom(y + 1, 1, n - DaysInMonth(y, m))
    ELSE DateFrom(y, m + 1, n - DaysInMonth(y, m))

FromOrdinal(n) == DateFrom(2023, 1, n)

\* the ordinal of (y, m, 1) counted from (y0, m0, 1), which is day acc
RECURSIVE OrdinalFrom(_, _, _, _, _)
OrdinalFrom(y0, m0, acc, y, m) ==
    IF y0 = y /\ m0 = m THEN acc
    ELSE IF m0 = 12 THEN OrdinalFrom(y0 + 1, 1, acc + DaysInMonth(y0, m0), y, m)
    ELSE OrdinalFrom(y0, m0 + 1, acc + DaysInMonth(y0, m0), y, m)

ToOrdinal(y, m, d) == OrdinalFrom(2023, 1, 0, y, m) + d - 1

\* date.replace(day=1)
ReplaceDay1(n) == LET t == FromOrdinal(n) IN ToOrdinal(t.y, t.m, 1)

(************************ working-day calendar ****************************)
\* Inside the two calendar functions the running total is kept in half
\* days, so the code's 1 is 2 and its 0.5 is 1; the value returned is the
\* number of days, Q(total, 2).

\* the loop inside calcular_proyeccion_mensual: dias (in half days) after
\* the iterations from current to end
\* mutant: Saturday counted as a full day
RECURSIVE dias_loop_sabado_entero(_, _, _)
dias_loop_sabado_entero(current, end, dias) ==
    IF current <= end
    THEN dias_loop_sabado_entero(current + 1, end,
                   IF weekday(current) <= 5 THEN dias + 2 ELSE dias)
    ELSE dias

RECURSIVE dias_loop(_, _, _)
dias_loop(current, end, dias) ==
    IF current <= end
    THEN dias_loop(current + 1, end,
                   IF weekday(current) < 5 THEN dias + 2
                   ELSE IF weekday(current) = 5 THEN dias + 1
                   ELSE dias)
    ELSE dias

\* mutant: the end date left out (while current < end)
calcular_dias_laborables_sin_fin(start, end) == Q(dias_loop(start, end - 1, 0), 2)

calcular_dias_laborables(start, end) == Q(dias_loop(start, end, 0), 2)

\* mutant: the test for Sunday dropped, every day but Saturday counted 1
main_dia_sin_domingo(start, i) ==
    IF weekday(start + i) = 5 THEN 1 ELSE 2

\* the generator expression of main's daily-requirement section: term i,
\* in half days
main_dia(start, i) ==
    IF weekday(start + i) = 5 THEN 1
    ELSE IF weekday(start + i) # 6 THEN 2 ELSE 0

\* sum(... for i in range(n)): range(n) is empty when n <= 0
RECURSIVE main_sum(_, _, _)
main_sum(start, i, n) ==
    IF i < n THEN main_dia(start, i) + main_sum(start, i + 1, n) ELSE 0

\* mutant: the number of days taken as a distance, abs((end - start).days) + 1
main_calcular_dias_laborables_abs(start, end) == Q(main_sum(start, 0, Abs(end - start) + 1), 2)

main_calcular_dias_laborables(start, end) == Q(main_sum(start, 0, (end - start) + 1), 2)

(****************************** tables ************************************)
\* the columns of the sales table the engine reads
Columns == {"VDE", "ANO", "MES", "SEM", "MONTO", "Cantidad", "Documento", "CODIGO"}

\* the columns of the budget table the engine reads
BudgetColumns == {"VDE", "ANO", "MES", "MONTO", "CANTIDAD"}

MESES_ORDEN == <<"Enero", "Febrero", "Marzo", "Abril", "Mayo", "Junio",
                 "Julio", "Agosto", "Septiembre", "Octubre", "Noviembre", "Diciembre">>

Semanas == {10, 11}
Meses   == {MESES_ORDEN[1], MESES_ORDEN[2]}

\* the sale lines a row may carry: two invoices of one client
Lineas == {[MONTO |-> 300, Documento |-> "F1", CODIGO |-> "C1"],
           [MONTO |-> 450, Documento |-> "F2", CODIGO |-> "C1"]}

\* the rows of the projections' tables: one salesperson, one year
Rows == {[VDE |-> "VDE_1", ANO |-> 2023, SEM |-> s, MES |-> m, MONTO |-> l.MONTO,
          Cantidad |-> 1, Documento |-> l.Documento, CODIGO |-> l.CODIGO] :
            s \in Semanas, m \in Meses, l \in Lineas}

RowSeqs(S) == UNION {[1..n -> S] : n \in 0..MaxRows}

\* a table handed over by the loader: every column present
WellFormed == {[cols |-> Columns, rows |-> r] : r \in RowSeqs(Rows)}

Row0 == [VDE |-> "VDE_1", ANO |-> 2023, SEM |-> 10, MES |-> "Enero", MONTO |-> 300,
         Cantidad |-> 1, Documento |-> "F1", CODIGO |-> "C1"]

\* a table that lacks one expected column
Malformed == {[cols |-> Columns \ {c}, rows |-> r] : c \in Columns, r \in RowSeqs({Row0})}

Tables == WellFormed \cup Malformed

\* the salesperson codes, in the order pandas sorts them
VDES == <<"VDE_1", "VDE_2", "VDE_3">>

\* the sales rows of the four-operation specification: two invoices of one
\* client sold by VDE_1 in Enero 2024, a sale of VDE_3 (who has no budget) in
\* the same month, and a sale of VDE_1 in Marzo 2024
VentasRows ==
    {[VDE |-> "VDE_1", ANO |-> 2024, MES |-> "Enero", SEM |-> 10, MONTO |-> 600,
      Cantidad |-> 5, Documento |-> "F1", CODIGO |-> "C1"],
     [VDE |-> "VDE_1", ANO |-> 2024, MES |-> "Enero", SEM |-> 11, MONTO |-> 400,
      Cantidad |-> 5, Documento |-> "F3", CODIGO |-> "C1"],
     [VDE |-> "VDE_3", ANO |-> 2024, MES |-> "Enero", SEM |-> 10, MONTO |-> 900,
      Cantidad |-> 9, Documento |-> "F4", CODIGO |-> "C3"],
     [VDE |-> "VDE_1", ANO |-> 2024, MES |-> "Marzo", SEM |-> 11, MONTO |-> 600,
      Cantidad |-> 5, Documento |-> "F5", CODIGO |-> "C1"]}

\* the budget rows, all of Enero 2024: amounts are what load_budget_data
\* leaves after stripping every character but digits and the point, so they
\* are never negative
PresupuestoRows ==
    {[VDE |-> "VDE_1", ANO |-> 2024, MES |-> "Enero", MONTO |-> 1000, CANTIDAD |-> 10],
     [VDE |-> "VDE_2", ANO |-> 2024, MES |-> "Enero", MONTO |-> 1000, CANTIDAD |-> 5],
     [VDE |-> "VDE_2", ANO |-> 2024, MES |-> "Enero", MONTO |-> 500, CANTIDAD |-> 0],
     [VDE |-> "VDE_2", ANO |-> 2024, MES |-> "Enero", MONTO |-> 0, CANTIDAD |-> 0]}

Venta0 == [VDE |-> "VDE_1", ANO |-> 2024, MES |-> "Enero", SEM |-> 10, MONTO |-> 600,
           Cantidad |-> 5, Documento |-> "F1", CODIGO |-> "C1"]

Presupuesto0 == [VDE |-> "VDE_1", ANO |-> 2024, MES |-> "Enero", MONTO |-> 1000, CANTIDAD |-> 10]

\* the pairs (sales table, budget table) of the four-operation specification:
\* both with every column, or one of them lacking one expected column
ParesDeTablas ==
    {<<[cols |-> Columns, rows |-> v], [cols |-> BudgetColumns, rows |-> p]>> :
        v \in RowSeqs(VentasRows), p \in RowSeqs(PresupuestoRows)}
    \cup
    {<<[cols |-> Columns \ {c}, rows |-> v], [cols |-> BudgetColumns, rows |-> <<Presupuesto0>>]>> :
        c \in Columns, v \in RowSeqs({Venta0})}
    \cup
    {<<[cols |-> Columns, rows |-> <<Venta0>>], [cols |-> BudgetColumns \ {c}, rows |-> p]>> :
        c \in BudgetColumns, p \in RowSeqs({Presupuesto0})}

\* the first column of orden that the table lacks ("" when it has them all)
Falta(cols, orden) ==
    LET m == SelectSeq(orden, LAMBDA c : c \notin cols)
    IN  IF m = <<>> THEN "" ELSE m[1]

\* df[(df['MES'] == mes) & (df['ANO'] == year)]
FiltrarPeriodo(rows, mes, year) == SelectSeq(rows, LAMBDA r : r.MES = mes /\ r.ANO = year)

\* df[col].sum() of a column of whole numbers
RECURSIVE SumCol(_, _)
SumCol(rows, col) == IF rows = <<>> THEN 0 ELSE Head(rows)[col] + SumCol(Tail(rows), col)

\* the keys of groupby('VDE'), sorted
GroupKeys(rows) == SelectSeq(VDES, LAMBDA v : \E i \in 1..Len(rows) : rows[i].VDE = v)

\* the rows of one group
Grupo(rows, v) == SelectSeq(rows, LAMBDA r : r.VDE = v)

\* df[df[col] == val]
Filtrar(rows, col, val) == SelectSeq(rows, LAMBDA r : r[col] = val)

\* df['MONTO'].sum()
RECURSIVE SumMonto(_)
SumMonto(rows) ==
    IF rows = <<>> THEN Num(0) ELSE Add(Num(Head(rows).MONTO), SumMonto(Tail(rows)))

\* df[col].nunique()
nunique(rows, col) == Cardinality({rows[i][col] : i \in 1..Len(rows)})

(************************* results and st output **************************)
None == [none |-> TRUE]

\* what a call gives back: the value returned and the messages sent to st
Returns(v) == [ret |-> v, st |-> <<>>]

\* st.warning(...); return None
Warned(msg, mes, year) ==
    [ret |-> None, st |-> <<[kind |-> "warning", msg |-> msg, mes |-> mes, year |-> year]>>]

\* except Exception as e: st.error(...); return None after a division of two
\* Python floats raised ZeroDivisionError
CaughtZeroDivision(op) ==
    [ret |-> None, st |-> <<[kind |-> "error", op |-> op, error |-> "float division by zero"]>>]

\* mutant: the message does not carry the text of the exception
Caught_sin_nombre(op, campo) == [ret |-> None, st |-> <<[kind |-> "error", op |-> op, campo |-> ""]>>]

\* except Exception as e: st.error(f"Error al calcular ...: {str(e)}"); return None
\* after df[campo] raised KeyError(campo)
Caught(op, campo) == [ret |-> None, st |-> <<[kind |-> "error", op |-> op, campo |-> campo]>>]

(************************ users and session state *************************)
\* Python's None in the slot of a user's filter
SinFiltro == "None"

USUARIOS ==
    [VDE1 |-> [password |-> "vde1", filtro |-> "VDE_1"],
     VDE2 |-> [password |-> "vde2", filtro |-> "VDE_2"],
     VDE3 |-> [password |-> "vde3", filtro |-> "VDE_3"],
     VDE4 |-> [password |-> "vde4", filtro |-> "VDE_4"],
     master |-> [password |-> "idemefa", filtro |-> SinFiltro]]

\* a session without keys
SesionVacia == [k \in {} |-> TRUE]

\* the three assignments of a successful login
SesionDe(usuario) ==
    [autenticado |-> TRUE, usuario_actual |-> usuario,
     filtro_vendedor |-> USUARIOS[usuario].filtro]

\* 'autenticado' in st.session_state and st.session_state.autenticado
Autenticado(s) == "autenticado" \in DOMAIN s /\ s.autenticado

\* mutant: the logout forgets the filter
CerrarSesion_sin_filtro(s) ==
    [k \in DOMAIN s \ {"autenticado", "usuario_actual"} |-> s[k]]

\* for key in [...]: if key in st.session_state: del st.session_state[key]
CerrarSesion(s) ==
    [k \in DOMAIN s \ {"autenticado", "usuario_actual", "filtro_vendedor"} |-> s[k]]

\* mutant: the password is not compared
Credenciales_sin_password(usuario, password) == usuario \in DOMAIN USUARIOS

\* usuario in USUARIOS and USUARIOS[usuario]["password"] == password
Credenciales(usuario, password) ==
    usuario \in DOMAIN USUARIOS /\ USUARIOS[usuario].password = password

(***************************** KPICalculator ******************************)
\* mutant: the Saturday branch dropped, so Saturday keeps the cap of 5
semanal_dias_sin_sabado(now) ==
    LET primer_dia_semana == now - weekday(now)
        cap == Min((now - primer_dia_semana) + 1, 5)
    IN  IF weekday(now) = 6 THEN Num(5) ELSE Num(cap)

\* mutant: a constant 5 on every day but Saturday
semanal_dias_constante(now) == IF weekday(now) = 5 THEN Q(11, 2) ELSE Num(5)

\* mutant: the days since Monday without the + 1, so Monday gives 0
semanal_dias_sin_mas_uno(now) ==
    LET primer_dia_semana == now - weekday(now)
        cap == Min(now - primer_dia_semana, 5)
    IN  IF weekday(now) = 5 THEN Q(11, 2)
        ELSE IF weekday(now) = 6 THEN Num(5)
        ELSE Num(cap)

\* calcular_proyeccion_semanal: dias_transcurridos for today = now
semanal_dias_transcurridos(now) ==
    LET primer_dia_semana == now - weekday(now)
        cap == Min((now - primer_dia_semana) + 1, 5)
    IN  IF weekday(now) = 5 THEN Q(11, 2)
        ELSE IF weekday(now) = 6 THEN Num(5)
        ELSE Num(cap)

\* calcular_proyeccion_semanal: dias_laborables
semanal_dias_laborables == Q(11, 2)

\* mutant: the week filter dropped
semanal_sin_filtro(df, semana) == df.rows

\* calcular_proyeccion_semanal: df[df['SEM'] == semana]
semanal_filtro(df, semana) == Filtrar(df.rows, "SEM", semana)

\* calcular_proyeccion_semanal: the record built from the selected rows
semanal_resultado(df_semana, semana, now) ==
    LET dias_transcurridos == semanal_dias_transcurridos(now)
        dias_laborables == semanal_dias_laborables
        ventas_semana == SumMonto(df_semana)
        venta_diaria_promedio ==
            IF Gt(dias_transcurridos, Num(0))
            THEN Div(ventas_semana, dias_transcurridos) ELSE Num(0)
        proyeccion == Mul(venta_diaria_promedio, dias_laborables)
    IN  [semana |-> semana,
         ventas_semana |-> ventas_semana,
         dias_transcurridos |-> dias_transcurridos,
         dias_laborables |-> dias_laborables,
         venta_diaria_promedio |-> venta_diaria_promedio,
         proyeccion |-> proyeccion]

calcular_proyeccion_semanal(df, semana, now) ==
    IF "SEM" \notin df.cols THEN Caught("semanal", "SEM")
    ELSE LET df_semana == semanal_filtro(df, semana)
         IN  IF df_semana = <<>> THEN Returns(None)
             ELSE IF "MONTO" \notin df.cols THEN Caught("semanal", "MONTO")
             ELSE Returns(semanal_resultado(df_semana, semana, now))

\* calcular_proyeccion_mensual: primer_dia_mes and ultimo_dia_mes, from today
primer_dia_mes(now) == ReplaceDay1(now)

\* mutant: 28 days added to the first day, which stays inside a longer month
ultimo_dia_mes_28(now) == ReplaceDay1(primer_dia_mes(now) + 28) - 1

ultimo_dia_mes(now) == ReplaceDay1(primer_dia_mes(now) + 32) - 1

\* mutant: the days counted from the first day of the requested month
mensual_dias_transcurridos_de_mes(mes, now) ==
    calcular_dias_laborables(
        ToOrdinal(FromOrdinal(now).y, CHOOSE k \in 1..12 : MESES_ORDEN[k] = mes, 1), now)

\* calcular_proyeccion_mensual: dias_transcurridos and dias_totales
mensual_dias_transcurridos(mes, now) == calcular_dias_laborables(primer_dia_mes(now), now)

\* mutant: a month taken as 22 working days
mensual_dias_totales_fijo(mes, now) == Num(22)

mensual_dias_totales(mes, now) ==
    calcular_dias_laborables(primer_dia_mes(now), ultimo_dia_mes(now))

\* calcular_proyeccion_mensual: df[df['MES'] == mes]
mensual_filtro(df, mes) == Filtrar(df.rows, "MES", mes)

\* mutant: the guard on dias_transcurridos dropped
mensual_promedio_sin_guarda(ventas_mes, dias_transcurridos) ==
    Div(ventas_mes, dias_transcurridos)

\* calcular_proyeccion_mensual: venta_diaria_promedio
mensual_promedio(ventas_mes, dias_transcurridos) ==
    IF Gt(dias_transcurridos, Num(0)) THEN Div(ventas_mes, dias_transcurridos) ELSE Num(0)

\* calcular_proyeccion_mensual: the record built from the selected rows
mensual_resultado(df_mes, mes, now) ==
    LET dias_transcurridos == mensual_dias_transcurridos(mes, now)
        dias_totales == mensual_dias_totales(mes, now)
        ventas_mes == SumMonto(df_mes)
        venta_diaria_promedio == mensual_promedio(ventas_mes, dias_transcurridos)
        proyeccion == Mul(venta_diaria_promedio, dias_totales)
        ticket_promedio ==
            IF nunique(df_mes, "Documento") > 0
            THEN Div(SumMonto(df_mes), Num(nunique(df_mes, "Documento"))) ELSE Num(0)
        factura_promedio ==
            IF nunique(df_mes, "CODIGO") > 0
            THEN Div(SumMonto(df_mes), Num(nunique(df_mes, "CODIGO"))) ELSE Num(0)
    IN  [mes |-> mes,
         ventas_mes |-> ventas_mes,
         dias_transcurridos |-> dias_transcurridos,
         dias_totales |-> dias_totales,
         venta_diaria_promedio |-> venta_diaria_promedio,
         proyeccion |-> proyeccion,
         ticket_promedio |-> ticket_promedio,
         factura_promedio |-> factura_promedio]

\* mutant: the empty selection not returned as None
calcular_proyeccion_mensual_sin_vacio(df, mes, now) ==
    IF "MES" \notin df.cols THEN Caught("mensual", "MES")
    ELSE IF "MONTO" \notin df.cols THEN Caught("mensual", "MONTO")
    ELSE IF "Documento" \notin df.cols THEN Caught("mensual", "Documento")
    ELSE IF "CODIGO" \notin df.cols THEN Caught("mensual", "CODIGO")
    ELSE Returns(mensual_resultado(mensual_filtro(df, mes), mes, now))

calcular_proyeccion_mensual(df, mes, now) ==
    IF "MES" \notin df.cols THEN Caught("mensual", "MES")
    ELSE LET df_mes == mensual_filtro(df, mes)
         IN  IF df_mes = <<>> THEN Returns(None)
             ELSE IF "MONTO" \notin df.cols THEN Caught("mensual", "MONTO")
             ELSE IF "Documento" \notin df.cols THEN Caught("mensual", "Documento")
             ELSE IF "CODIGO" \notin df.cols THEN Caught("mensual", "CODIGO")
             ELSE Returns(mensual_resultado(df_mes, mes, now))

\* calcular_cumplimiento_metas: the budget of the period, grouped by VDE
presupuesto_mes(budget_rows, mes, year) ==
    LET sel == FiltrarPeriodo(budget_rows, mes, year)
        keys == GroupKeys(sel)
    IN  [k \in 1..Len(keys) |->
            [VDE |-> keys[k],
             MONTO |-> SumCol(Grupo(sel, keys[k]), "MONTO"),
             CANTIDAD |-> SumCol(Grupo(sel, keys[k]), "CANTIDAD")]]

\* calcular_cumplimiento_metas: the sales of the period, grouped by VDE
ventas_mes(rows, mes, year) ==
    LET sel == FiltrarPeriodo(rows, mes, year)
        keys == GroupKeys(sel)
    IN  [k \in 1..Len(keys) |->
            [VDE |-> keys[k],
             MONTO |-> SumCol(Grupo(sel, keys[k]), "MONTO"),
             Cantidad |-> SumCol(Grupo(sel, keys[k]), "Cantidad"),
             Documento |-> nunique(Grupo(sel, keys[k]), "Documento"),
             CODIGO |-> nunique(Grupo(sel, keys[k]), "CODIGO")]]

\* mutant: how='left', the keys of the sales side only
merge_left(ventas, presupuesto) ==
    LET keys == SelectSeq(VDES, LAMBDA v : \E i \in 1..Len(ventas) : ventas[i].VDE = v)
    IN  [k \in 1..Len(keys) |->
            LET l == Grupo(ventas, keys[k])
                r == Grupo(presupuesto, keys[k])
            IN  [VDE |-> keys[k],
                 MONTO_real |-> l[1].MONTO,
                 Cantidad |-> l[1].Cantidad,
                 Documento |-> l[1].Documento,
                 CODIGO |-> l[1].CODIGO,
                 MONTO_meta |-> IF r = <<>> THEN 0 ELSE r[1].MONTO,
                 CANTIDAD |-> IF r = <<>> THEN 0 ELSE r[1].CANTIDAD]]

\* pd.merge(ventas_mes, presupuesto_mes, on='VDE', how='outer',
\* suffixes=('_real', '_meta')).fillna(0): one row per key of either side,
\* keys sorted, the missing side filled with 0
merge_outer(ventas, presupuesto) ==
    LET keys == SelectSeq(VDES, LAMBDA v :
                    \/ \E i \in 1..Len(ventas) : ventas[i].VDE = v
                    \/ \E i \in 1..Len(presupuesto) : presupuesto[i].VDE = v)
    IN  [k \in 1..Len(keys) |->
            LET l == Grupo(ventas, keys[k])
                r == Grupo(presupuesto, keys[k])
            IN  [VDE |-> keys[k],
                 MONTO_real |-> IF l = <<>> THEN 0 ELSE l[1].MONTO,
                 Cantidad |-> IF l = <<>> THEN 0 ELSE l[1].Cantidad,
                 Documento |-> IF l = <<>> THEN 0 ELSE l[1].Documento,
                 CODIGO |-> IF l = <<>> THEN 0 ELSE l[1].CODIGO,
                 MONTO_meta |-> IF r = <<>> THEN 0 ELSE r[1].MONTO,
                 CANTIDAD |-> IF r = <<>> THEN 0 ELSE r[1].CANTIDAD]]

\* a row of the result: the six summed columns and the four ratios
Fila(vde, c, pv, pc, tp, fp) ==
    [VDE |-> vde,
     MONTO_real |-> Num(c.MONTO_real), Cantidad |-> Num(c.Cantidad),
     Documento |-> Num(c.Documento), CODIGO |-> Num(c.CODIGO),
     MONTO_meta |-> Num(c.MONTO_meta), CANTIDAD |-> Num(c.CANTIDAD),
     pct_cumplimiento_ventas |-> pv, pct_cumplimiento_cajas |-> pc,
     ticket_promedio |-> tp, factura_promedio |-> fp]

\* mutant: the two percentages left as fractions, not multiplied by 100
fila_vendedor_sin_cien(c) ==
    Fila(c.VDE, c,
         Div(Num(c.MONTO_real), Num(c.MONTO_meta)),
         Div(Num(c.Cantidad), Num(c.CANTIDAD)),
         Div(Num(c.MONTO_real), Num(c.Documento)),
         Div(Num(c.MONTO_real), Num(c.CODIGO)))

\* mutant: the amount percentage by floor division (//)
fila_vendedor_division_entera(c) ==
    Fila(c.VDE, c,
         IF c.MONTO_meta = 0 THEN Mul(Div(Num(c.MONTO_real), Num(c.MONTO_meta)), Num(100))
         ELSE Num((c.MONTO_real \div c.MONTO_meta) * 100),
         Mul(Div(Num(c.Cantidad), Num(c.CANTIDAD)), Num(100)),
         Div(Num(c.MONTO_real), Num(c.Documento)),
         Div(Num(c.MONTO_real), Num(c.CODIGO)))

\* mutant: every ratio guarded the way the projections guard theirs, 0 when
\* the denominator is 0
fila_vendedor_guardada(c) ==
    Fila(c.VDE, c,
         IF c.MONTO_meta > 0 THEN Mul(Div(Num(c.MONTO_real), Num(c.MONTO_meta)), Num(100)) ELSE Num(0),
         IF c.CANTIDAD > 0 THEN Mul(Div(Num(c.Cantidad), Num(c.CANTIDAD)), Num(100)) ELSE Num(0),
         IF c.Documento > 0 THEN Div(Num(c.MONTO_real), Num(c.Documento)) ELSE Num(0),
         IF c.CODIGO > 0 THEN Div(Num(c.MONTO_real), Num(c.CODIGO)) ELSE Num(0))

\* calcular_cumplimiento_metas: the four ratios of a salesperson's row, by
\* the division of two pandas columns (a zero denominator gives inf or nan)
fila_vendedor(c) ==
    Fila(c.VDE, c,
         Mul(Div(Num(c.MONTO_real), Num(c.MONTO_meta)), Num(100)),
         Mul(Div(Num(c.Cantidad), Num(c.CANTIDAD)), Num(100)),
         Div(Num(c.MONTO_real), Num(c.Documento)),
         Div(Num(c.MONTO_real), Num(c.CODIGO)))

\* cumplimiento.sum(numeric_only=True): the sums of the six merged columns
\* (the sums of the four ratio columns are overwritten before they are read)
total_sumas(merged) ==
    [MONTO_real |-> SumCol(merged, "MONTO_real"), Cantidad |-> SumCol(merged, "Cantidad"),
     Documento |-> SumCol(merged, "Documento"), CODIGO |-> SumCol(merged, "CODIGO"),
     MONTO_meta |-> SumCol(merged, "MONTO_meta"), CANTIDAD |-> SumCol(merged, "CANTIDAD")]

\* mutant: the four ratios of the TOTAL row left as cumplimiento.sum made
\* them, the sums of the per-row ratios (nan skipped, inf kept)
RECURSIVE SumaRazones(_, _)
SumaRazones(filas, campo) ==
    IF filas = <<>> THEN Num(0)
    ELSE LET x == Head(filas)[campo]
             resto == SumaRazones(Tail(filas), campo)
         IN  IF x.d = 0 /\ x.n = 0 THEN resto
             ELSE IF x.d = 0 THEN x
             ELSE IF resto.d = 0 THEN resto
             ELSE Add(x, resto)

total_row_sin_recalculo(merged) ==
    LET filas == [k \in 1..Len(merged) |-> fila_vendedor(merged[k])]
    IN  Fila("TOTAL", total_sumas(merged),
             SumaRazones(filas, "pct_cumplimiento_ventas"),
             SumaRazones(filas, "pct_cumplimiento_cajas"),
             SumaRazones(filas, "ticket_promedio"),
             SumaRazones(filas, "factura_promedio"))

\* calcular_cumplimiento_metas: the TOTAL row, its four ratios recomputed
\* from the summed columns
total_row(merged) ==
    LET t == total_sumas(merged)
    IN  Fila("TOTAL", t,
             Mul(Div(Num(t.MONTO_real), Num(t.MONTO_meta)), Num(100)),
             Mul(Div(Num(t.Cantidad), Num(t.CANTIDAD)), Num(100)),
             Div(Num(t.MONTO_real), Num(t.Documento)),
             Div(Num(t.MONTO_real), Num(t.CODIGO)))

\* total_row['VDE'] = 'TOTAL' turns total_row into a Series of Python
\* objects, so the four divisions that follow are divisions of Python
\* floats: a zero denominator raises ZeroDivisionError
total_raises(t) == t.MONTO_meta = 0 \/ t.CANTIDAD = 0 \/ t.Documento = 0 \/ t.CODIGO = 0

\* calcular_cumplimiento_metas: the branch taken when the budget of the
\* period is empty or sums to zero
sin_presupuesto(df, mes, year) ==
    IF Falta(df.cols, <<"MES", "ANO">>) # ""
    THEN Caught("cumplimiento", Falta(df.cols, <<"MES", "ANO">>))
    ELSE IF FiltrarPeriodo(df.rows, mes, year) # <<>>
    THEN Warned("sin presupuesto, con ventas", mes, year)
    ELSE Warned("sin presupuesto ni ventas", mes, year)

\* mutant: the TOTAL row put before the salesperson rows
con_presupuesto_total_primero(df, presupuesto, mes, year) ==
    LET falta == Falta(df.cols, <<"MES", "ANO", "VDE", "MONTO", "Cantidad", "Documento", "CODIGO">>)
        merged == merge_outer(ventas_mes(df.rows, mes, year), presupuesto)
        cumplimiento == [k \in 1..Len(merged) |-> fila_vendedor(merged[k])]
    IN  IF falta # "" THEN Caught("cumplimiento", falta)
        ELSE IF total_raises(total_sumas(merged)) THEN CaughtZeroDivision("cumplimiento")
        ELSE Returns([dataframe |-> <<total_row(merged)>> \o cumplimiento,
                      mes |-> mes, year |-> year])

\* calcular_cumplimiento_metas: the branch that builds the table
con_presupuesto(df, presupuesto, mes, year) ==
    LET falta == Falta(df.cols, <<"MES", "ANO", "VDE", "MONTO", "Cantidad", "Documento", "CODIGO">>)
        merged == merge_outer(ventas_mes(df.rows, mes, year), presupuesto)
        cumplimiento == [k \in 1..Len(merged) |-> fila_vendedor(merged[k])]
    IN  IF falta # "" THEN Caught("cumplimiento", falta)
        ELSE IF total_raises(total_sumas(merged)) THEN CaughtZeroDivision("cumplimiento")
        ELSE Returns([dataframe |-> Append(cumplimiento, total_row(merged)),
                      mes |-> mes, year |-> year])

\* mutant: the budget only tested for emptiness, not for a zero sum, and the
\* TOTAL ratios divided as pandas columns, which do not raise
con_presupuesto_sin_raise(df, presupuesto, mes, year) ==
    LET falta == Falta(df.cols, <<"MES", "ANO", "VDE", "MONTO", "Cantidad", "Documento", "CODIGO">>)
        merged == merge_outer(ventas_mes(df.rows, mes, year), presupuesto)
        cumplimiento == [k \in 1..Len(merged) |-> fila_vendedor(merged[k])]
    IN  IF falta # "" THEN Caught("cumplimiento", falta)
        ELSE Returns([dataframe |-> Append(cumplimiento, total_row(merged)),
                      mes |-> mes, year |-> year])

calcular_cumplimiento_metas_sin_guarda(budget, df_filtrado, mes, year) ==
    LET falta == Falta(budget.cols, <<"MES", "ANO", "VDE", "MONTO", "CANTIDAD">>)
        presupuesto == presupuesto_mes(budget.rows, mes, year)
    IN  IF falta # "" THEN Caught("cumplimiento", falta)
        ELSE IF presupuesto = <<>>
        THEN sin_presupuesto(df_filtrado, mes, year)
        ELSE con_presupuesto_sin_raise(df_filtrado, presupuesto, mes, year)

calcular_cumplimiento_metas(budget, df_filtrado, mes, year) ==
    LET falta == Falta(budget.cols, <<"MES", "ANO", "VDE", "MONTO", "CANTIDAD">>)
        presupuesto == presupuesto_mes(budget.rows, mes, year)
    IN  IF falta # "" THEN Caught("cumplimiento", falta)
        ELSE IF presupuesto = <<>> \/ SumCol(presupuesto, "MONTO") = 0
        THEN sin_presupuesto(df_filtrado, mes, year)
        ELSE con_presupuesto(df_filtrado, presupuesto, mes, year)

\* calcular_kpis_basicos: the record of the five indicators; the divisions
\* are numpy's (a zero denominator gives inf or nan), the mean of no values
\* is nan
kpis(rows) ==
    [clientes_unicos |-> nunique(rows, "CODIGO"),
     transacciones |-> nunique(rows, "Documento"),
     frecuencia_compra |->
        Div(Num(Cardinality({<<rows[i].CODIGO, rows[i].Documento>> : i \in 1..Len(rows)})),
            Num(nunique(rows, "CODIGO"))),
     ticket_promedio |-> Div(SumMonto(rows), Num(nunique(rows, "Documento"))),
     factura_promedio |-> Div(SumMonto(rows), Num(nunique(rows, "CODIGO")))]

\* mutant: the divisions done on Python numbers, which raise on a zero
\* denominator
calcular_kpis_basicos_python(df) ==
    LET falta == Falta(df.cols, <<"CODIGO", "Documento", "MONTO">>)
    IN  IF falta # "" THEN Caught("kpis", falta)
        ELSE IF df.rows = <<>> THEN CaughtZeroDivision("kpis")
        ELSE Returns(kpis(df.rows))

calcular_kpis_basicos(df) ==
    LET falta == Falta(df.cols, <<"CODIGO", "Documento", "MONTO">>)
    IN  IF falta # "" THEN Caught("kpis", falta) ELSE Returns(kpis(df.rows))

(************************** engine specification **************************)
NoCall == [op |-> "none"]

\* one run of the script: the date is read from the clock, the table comes
\* from the loader
Init ==
    /\ hoy \in 0..MaxHoy
    /\ sales_df \in Tables
    /\ budget_df = [cols |-> BudgetColumns, rows |-> <<>>]
    /\ session_state = SesionDe("master")
    /\ last = NoCall

\* kpi_calculator.calcular_proyeccion_semanal(current_df, semana_filter)
ProyeccionSemanal(semana) ==
    /\ last' = [op |-> "semanal", arg |-> semana,
                out |-> calcular_proyeccion_semanal(sales_df, semana, hoy)]
    /\ UNCHANGED <<hoy, sales_df, budget_df, session_state>>

\* kpi_calculator.calcular_proyeccion_mensual(current_df, mes_actual)
ProyeccionMensual(mes) ==
    /\ last' = [op |-> "mensual", arg |-> mes,
                out |-> calcular_proyeccion_mensual(sales_df, mes, hoy)]
    /\ UNCHANGED <<hoy, sales_df, budget_df, session_state>>

Next ==
    \/ \E semana \in Semanas : ProyeccionSemanal(semana)
    \/ \E mes \in Meses : ProyeccionMensual(mes)

Spec == Init /\ [][Next]_vars

(************************* calendar specification *************************)
\* the two implementations of calcular_dias_laborables applied to a pair of
\* dates drawn from 0..MaxDay
InitCal ==
    /\ hoy = 0
    /\ sales_df = [cols |-> Columns, rows |-> <<>>]
    /\ budget_df = [cols |-> BudgetColumns, rows |-> <<>>]
    /\ session_state = SesionDe("master")
    /\ last = NoCall

DiasLaborables(start, end) ==
    /\ last' = [op |-> "dias", start |-> start, end |-> end,
                out |-> Returns(calcular_dias_laborables(start, end))]
    /\ UNCHANGED <<hoy, sales_df, budget_df, session_state>>

DiasLaborablesMain(start, end) ==
    /\ last' = [op |-> "dias_main", start |-> start, end |-> end,
                out |-> Returns(main_calcular_dias_laborables(start, end))]
    /\ UNCHANGED <<hoy, sales_df, budget_df, session_state>>

NextCal ==
    \/ \E start, end \in 0..MaxDay : DiasLaborables(start, end)
    \/ \E start, end \in 0..MaxDay : DiasLaborablesMain(start, end)

SpecCal == InitCal /\ [][NextCal]_vars

(********************* four-operation specification ***********************)
\* the months and years asked of calcular_cumplimiento_metas
MesesMetas == {MESES_ORDEN[1], MESES_ORDEN[3]}

Years == {2023, 2024}

\* an engine constructed over a pair of tables; the clock stands at day 0
InitEngine ==
    /\ hoy = 0
    /\ \E par \in ParesDeTablas : sales_df = par[1] /\ budget_df = par[2]
    /\ session_state = SesionDe("master")
    /\ last = NoCall

\* mutant: the filtered budget assigned back to self.budget_df
CumplimientoMetas_filtra(mes, year) ==
    /\ last' = [op |-> "cumplimiento", arg |-> <<mes, year>>,
                out |-> calcular_cumplimiento_metas(budget_df, sales_df, mes, year)]
    /\ budget_df' = [budget_df EXCEPT !.rows = FiltrarPeriodo(budget_df.rows, mes, year)]
    /\ UNCHANGED <<hoy, sales_df, session_state>>

\* kpi_calculator.calcular_cumplimiento_metas(current_df, mes_analisis, year_filter)
CumplimientoMetas(mes, year) ==
    /\ last' = [op |-> "cumplimiento", arg |-> <<mes, year>>,
                out |-> calcular_cumplimiento_metas(budget_df, sales_df, mes, year)]
    /\ UNCHANGED <<hoy, sales_df, budget_df, session_state>>

\* kpi_calculator.calcular_kpis_basicos(current_df)
KpisBasicos ==
    /\ last' = [op |-> "kpis", arg |-> <<>>, out |-> calcular_kpis_basicos(sales_df)]
    /\ UNCHANGED <<hoy, sales_df, budget_df, session_state>>

NextEngine ==
    \/ \E mes \in MesesMetas, year \in Years : CumplimientoMetas(mes, year)
    \/ KpisBasicos
    \/ \E semana \in Semanas : ProyeccionSemanal(semana)
    \/ \E mes \in Meses : ProyeccionMensual(mes)

SpecEngine == InitEngine /\ [][NextEngine]_vars

(*************************** month specification **************************)
\* main's daily-requirement section: hoy, primer_dia_mes, ultimo_dia_mes and
\* the three day counts
main_dias(now) ==
    LET dias_transcurridos == main_calcular_dias_laborables(primer_dia_mes(now), now)
        dias_totales == main_calcular_dias_laborables(primer_dia_mes(now), ultimo_dia_mes(now))
        resta == Add(dias_totales, Mul(Num(-1), dias_transcurridos))
    IN  [primer_dia_mes |-> primer_dia_mes(now),
         ultimo_dia_mes |-> ultimo_dia_mes(now),
         dias_transcurridos |-> dias_transcurridos,
         dias_totales |-> dias_totales,
         dias_faltantes |-> IF Gt(resta, Num(0)) THEN resta ELSE Num(0)]

\* the clock read on any day of 2023-01-01 .. day MaxFecha, over a table
\* with one sale of Enero
InitMes ==
    /\ hoy \in 0..MaxFecha
    /\ sales_df = [cols |-> Columns, rows |-> <<Row0>>]
    /\ budget_df = [cols |-> BudgetColumns, rows |-> <<>>]
    /\ session_state = SesionDe("master")
    /\ last = NoCall

\* main: the day counts of the daily-requirement section
RequerimientoDiario ==
    /\ last' = [op |-> "requerimiento", arg |-> <<>>, out |-> Returns(main_dias(hoy))]
    /\ UNCHANGED <<hoy, sales_df, budget_df, session_state>>

NextMes ==
    \/ RequerimientoDiario
    \/ \E mes \in Meses : ProyeccionMensual(mes)

SpecMes == InitMes /\ [][NextMes]_vars

(*************************** one run of main() ****************************)
\* what the login form can send: the five configured users and one unknown
\* name, their passwords and one that belongs to nobody
UsuariosTecleados == DOMAIN USUARIOS \cup {"otro"}

PasswordsTecleados == {USUARIOS[u].password : u \in DOMAIN USUARIOS} \cup {"mala"}

\* the rows the loaders can return: sales of two salespersons in two months,
\* budgets of the same two salespersons
VentasCargadasRows ==
    <<[VDE |-> "VDE_1", ANO |-> 2024, MES |-> "Enero", SEM |-> 10, MONTO |-> 600,
       Cantidad |-> 5, Documento |-> "F1", CODIGO |-> "C1"],
      [VDE |-> "VDE_2", ANO |-> 2024, MES |-> "Enero", SEM |-> 10, MONTO |-> 900,
       Cantidad |-> 9, Documento |-> "F2", CODIGO |-> "C2"],
      [VDE |-> "VDE_1", ANO |-> 2024, MES |-> "Marzo", SEM |-> 11, MONTO |-> 300,
       Cantidad |-> 5, Documento |-> "F5", CODIGO |-> "C1"]>>

PresupuestoCargadoRows ==
    <<[VDE |-> "VDE_1", ANO |-> 2024, MES |-> "Enero", MONTO |-> 1000, CANTIDAD |-> 10],
      [VDE |-> "VDE_2", ANO |-> 2024, MES |-> "Enero", MONTO |-> 2000, CANTIDAD |-> 5]>>

\* the rows of filas at the positions of I, in their order
SubTabla(filas, I) ==
    LET idx == SelectSeq([i \in 1..Len(filas) |-> i], LAMBDA i : i \in I)
    IN  [j \in 1..Len(idx) |-> filas[idx[j]]]

\* what load_sales_data() and load_budget_data() can return
VentasCargadas ==
    {[cols |-> Columns, rows |-> SubTabla(VentasCargadasRows, I)] :
        I \in SUBSET (1..Len(VentasCargadasRows))}

PresupuestosCargados ==
    {[cols |-> BudgetColumns, rows |-> SubTabla(PresupuestoCargadoRows, I)] :
        I \in SUBSET (1..Len(PresupuestoCargadoRows))}

\* st.session_state.autenticado = True and the two assignments after it
IniciarSesion(s, usuario) ==
    [k \in DOMAIN s \cup {"autenticado", "usuario_actual", "filtro_vendedor"} |->
        IF k \in {"autenticado", "usuario_actual", "filtro_vendedor"}
        THEN SesionDe(usuario)[k] ELSE s[k]]

\* autenticar(): the session it leaves and how it ends ("True", "False", or
\* "rerun" when st.rerun() stops the script); cerrar is the logout button,
\* usuario, password and enviar the login form
autenticar(s, usuario, password, enviar, cerrar) ==
    IF Autenticado(s)
    THEN IF cerrar
         THEN [state |-> CerrarSesion(s), ret |-> "rerun"]
         ELSE [state |-> s, ret |-> "True"]
    ELSE IF enviar /\ Credenciales(usuario, password)
         THEN [state |-> IniciarSesion(s, usuario), ret |-> "rerun"]
         ELSE [state |-> s, ret |-> "False"]

\* mutant: the filter is never applied
aplicar_filtro_a_nadie(df, filtro_vendedor) == df

\* if filtro_vendedor: df = df[df['VDE'] == filtro_vendedor]
aplicar_filtro(df, filtro_vendedor) ==
    IF filtro_vendedor = SinFiltro THEN df
    ELSE [df EXCEPT !.rows = Filtrar(df.rows, "VDE", filtro_vendedor)]

\* sorted(sales_df['MES'].unique(), key=MESES_ORDEN.index), as a set
meses_disponibles(df) == {df.rows[i].MES : i \in 1..Len(df.rows)}

\* sorted(sales_df['ANO'].unique(), reverse=True), as a set
available_years(df) == {df.rows[i].ANO : i \in 1..Len(df.rows)}

\* sorted(sales_df['VDE'].unique()), as a set
vendedores_disponibles(df) == {df.rows[i].VDE : i \in 1..Len(df.rows)}

\* sales_df[(sales_df['ANO'] == year_filter) & (sales_df['VDE'].isin(vendedores_seleccionados))]
current_df(df, year_filter, vendedores_seleccionados) ==
    [df EXCEPT !.rows = SelectSeq(df.rows,
        LAMBDA r : r.ANO = year_filter /\ r.VDE \in vendedores_seleccionados)]

\* no KPICalculator was constructed in the run
SinMotor == None

\* a run that ended before any engine call
SinLlamada == [sin_llamada |-> TRUE]

\* a session without keys and a script that has not run yet
InitSesion ==
    /\ hoy = 0
    /\ sales_df = SinMotor
    /\ budget_df = SinMotor
    /\ session_state = SesionVacia
    /\ last = NoCall

\* the user of the session that was closed last ("" when none was), kept
\* from run to run while nobody is logged in
SesionCerrada ==
    IF last.op = "main" /\ "cerrar" \in DOMAIN last.arg /\ last.arg.cerrar
    THEN last.antes.usuario_actual
    ELSE IF last.op = "main" /\ "previo" \in DOMAIN last THEN last.previo ELSE ""

\* a run of main() without a session: autenticar shows the login form, and
\* main returns after the warning, or st.rerun() stops the script
MainSinSesion(usuario, password, enviar) ==
    /\ ~Autenticado(session_state)
    /\ LET a == autenticar(session_state, usuario, password, enviar, FALSE)
       IN  /\ session_state' = a.state
           /\ last' = [op |-> "main", antes |-> session_state, previo |-> SesionCerrada,
                       arg |-> [usuario |-> usuario, password |-> password, enviar |-> enviar],
                       out |-> [autenticar |-> a.ret, cargado |-> FALSE]]
    /\ sales_df' = SinMotor
    /\ budget_df' = SinMotor
    /\ UNCHANGED hoy

\* a run of main() in which the logout button was pressed
MainCerrarSesion ==
    /\ Autenticado(session_state)
    /\ LET a == autenticar(session_state, "", "", FALSE, TRUE)
       IN  /\ session_state' = a.state
           /\ last' = [op |-> "main", antes |-> session_state,
                       arg |-> [cerrar |-> TRUE],
                       out |-> [autenticar |-> a.ret, cargado |-> FALSE]]
    /\ sales_df' = SinMotor
    /\ budget_df' = SinMotor
    /\ UNCHANGED hoy

\* a run of main() with a session in which the loaders fail
MainSinDatos ==
    /\ Autenticado(session_state)
    /\ LET a == autenticar(session_state, "", "", FALSE, FALSE)
       IN  /\ session_state' = a.state
           /\ last' = [op |-> "main", antes |-> session_state,
                       arg |-> [cerrar |-> FALSE, ventas |-> None],
                       out |-> [autenticar |-> a.ret, cargado |-> TRUE,
                                cumplimiento |-> SinLlamada, kpis |-> SinLlamada,
                                          semanal |-> SinLlamada, mensual |-> SinLlamada]]
    /\ sales_df' = SinMotor
    /\ budget_df' = SinMotor
    /\ UNCHANGED hoy

\* a run of main() with a session, module "Cumplimiento": the tables are
\* loaded and filtered, the engine is constructed over them, and the
\* attainment and the KPIs of current_df are computed
MainCumplimiento(ventas, presupuesto) ==
    /\ Autenticado(session_state)
    /\ LET a == autenticar(session_state, "", "", FALSE, FALSE)
           filtro_vendedor == session_state.filtro_vendedor
           sales == aplicar_filtro(ventas, filtro_vendedor)
           budget == aplicar_filtro(presupuesto, filtro_vendedor)
       IN  /\ session_state' = a.state
           /\ sales_df' = sales
           /\ budget_df' = budget
           /\ \E meses_seleccionados \in SUBSET meses_disponibles(sales),
                 vendedores_seleccionados \in SUBSET vendedores_disponibles(sales) :
                /\ Cardinality(meses_seleccionados) <= 1
                /\ IF meses_seleccionados = {}
                   THEN last' = [op |-> "main", antes |-> session_state,
                                 arg |-> [cerrar |-> FALSE, ventas |-> ventas,
                                          presupuesto |-> presupuesto, mes |-> "",
                                          year |-> 0, semana |-> 0,
                                          vendedores |-> vendedores_seleccionados],
                                 out |-> [autenticar |-> a.ret, cargado |-> TRUE,
                                          cumplimiento |-> SinLlamada, kpis |-> SinLlamada,
                                          semanal |-> SinLlamada, mensual |-> SinLlamada]]
                   ELSE \E mes_analisis \in meses_seleccionados,
                           year_filter \in available_years(sales) :
                        LET current == current_df(sales, year_filter, vendedores_seleccionados)
                            cumplimiento ==
                                IF current.rows = <<>> THEN SinLlamada
                                ELSE calcular_cumplimiento_metas(budget, current,
                                                                 mes_analisis, year_filter)
                            kpis_basicos ==
                                IF current.rows = <<>> \/ cumplimiento.ret = None
                                THEN SinLlamada
                                ELSE calcular_kpis_basicos(current)
                        IN  last' = [op |-> "main", antes |-> session_state,
                                     arg |-> [cerrar |-> FALSE, ventas |-> ventas,
                                              presupuesto |-> presupuesto, mes |-> mes_analisis,
                                              year |-> year_filter, semana |-> 0,
                                              vendedores |-> vendedores_seleccionados],
                                     out |-> [autenticar |-> a.ret, cargado |-> TRUE,
                                              cumplimiento |-> cumplimiento,
                                              kpis |-> kpis_basicos,
                                              semanal |-> SinLlamada, mensual |-> SinLlamada]]
    /\ UNCHANGED hoy

\* sorted(sales_df[sales_df['ANO'] == year_filter]['SEM'].unique(), reverse=True), as a set
semanas_con_datos(df, year_filter) ==
    {df.rows[i].SEM : i \in {j \in 1..Len(df.rows) : df.rows[j].ANO = year_filter}}

\* a run of main() with a session, module "Proyecciones": the tables are
\* loaded and filtered, the engine is constructed over them, and the weekly
\* and the monthly projection of current_df are computed
MainProyecciones(ventas, presupuesto) ==
    /\ Autenticado(session_state)
    /\ LET a == autenticar(session_state, "", "", FALSE, FALSE)
           filtro_vendedor == session_state.filtro_vendedor
           sales == aplicar_filtro(ventas, filtro_vendedor)
           budget == aplicar_filtro(presupuesto, filtro_vendedor)
       IN  /\ session_state' = a.state
           /\ sales_df' = sales
           /\ budget_df' = budget
           /\ \E meses_seleccionados \in SUBSET meses_disponibles(sales),
                 vendedores_seleccionados \in SUBSET vendedores_disponibles(sales) :
                /\ Cardinality(meses_seleccionados) <= 1
                /\ IF meses_seleccionados = {}
                   THEN last' = [op |-> "main", antes |-> session_state,
                                 arg |-> [cerrar |-> FALSE, ventas |-> ventas,
                                          presupuesto |-> presupuesto, mes |-> "",
                                          year |-> 0, semana |-> 0,
                                          vendedores |-> vendedores_seleccionados],
                                 out |-> [autenticar |-> a.ret, cargado |-> TRUE,
                                          cumplimiento |-> SinLlamada, kpis |-> SinLlamada,
                                          semanal |-> SinLlamada, mensual |-> SinLlamada]]
                   ELSE \E mes_actual \in meses_seleccionados,
                           year_filter \in available_years(sales) :
                        \E semana_filter \in semanas_con_datos(sales, year_filter) :
                        LET current == current_df(sales, year_filter, vendedores_seleccionados)
                            proyeccion_semanal ==
                                IF current.rows = <<>> THEN SinLlamada
                                ELSE calcular_proyeccion_semanal(current, semana_filter, hoy)
                            proyeccion_mensual ==
                                IF current.rows = <<>> THEN SinLlamada
                                ELSE calcular_proyeccion_mensual(current, mes_actual, hoy)
                        IN  last' = [op |-> "main", antes |-> session_state,
                                     arg |-> [cerrar |-> FALSE, ventas |-> ventas,
                                              presupuesto |-> presupuesto, mes |-> mes_actual,
                                              year |-> year_filter, semana |-> semana_filter,
                                              vendedores |-> vendedores_seleccionados],
                                     out |-> [autenticar |-> a.ret, cargado |-> TRUE,
                                              cumplimiento |-> SinLlamada, kpis |-> SinLlamada,
                                              semanal |-> proyeccion_semanal,
                                              mensual |-> proyeccion_mensual]]
    /\ UNCHANGED hoy

NextSesion ==
    \/ \E usuario \in UsuariosTecleados, password \in PasswordsTecleados, enviar \in BOOLEAN :
          MainSinSesion(usuario, password, enviar)
    \/ MainCerrarSesion
    \/ MainSinDatos
    \/ \E ventas \in VentasCargadas, presupuesto \in PresupuestosCargados :
          MainCumplimiento(ventas, presupuesto)
    \/ \E ventas \in VentasCargadas, presupuesto \in PresupuestosCargados :
          MainProyecciones(ventas, presupuesto)

SpecSesion == InitSesion /\ [][NextSesion]_vars

(******************************* claims ***********************************)
\* the weight of a calendar day: 1.0 Monday-Friday, 0.5 Saturday, 0.0 Sunday
Peso(d) == IF weekday(d) < 5 THEN Num(1) ELSE IF weekday(d) = 5 THEN Q(1, 2) ELSE Num(0)

\* the sum of the weights of the days of [start, end], by counting the
\* days of each kind
PesoTotal(start, end) ==
    LET entre  == {d \in start..end : weekday(d) < 5}
        sabado == {d \in start..end : weekday(d) = 5}
    IN  Add(Num(Cardinality(entre)), Mul(Q(1, 2), Num(Cardinality(sabado))))

\* C1: for start <= end, calcular_dias_laborables(start, end) is the sum over
\* the days of [start, end] of 1.0 (Monday-Friday), 0.5 (Saturday), 0.0
\* (Sunday); for start = end it is that day's weight.
C1_SumaDePesos ==
    (last.op = "dias" /\ last.start <= last.end) =>
        /\ last.out.ret = PesoTotal(last.start, last.end)
        /\ last.start = last.end => last.out.ret = Peso(last.start)

\* a range of several days holding a Saturday and a Sunday
C1_Witness ==
    /\ last.op = "dias"
    /\ last.start < last.end
    /\ \E d \in last.start..last.end : weekday(d) = 5
    /\ \E d \in last.start..last.end : weekday(d) = 6
    /\ last.out.ret = PesoTotal(last.start, last.end)

\* C2: for start > end both implementations of calcular_dias_laborables
\* return 0 and raise nothing.
C2_RangoInvertido ==
    (last.op \in {"dias", "dias_main"} /\ last.start > last.end) =>
        last.out = Returns(Num(0))

\* main's implementation called with end more than one day before start
C2_Witness ==
    /\ last.op = "dias_main"
    /\ last.start > last.end + 1
    /\ last.out = Returns(Num(0))

\* C3: from a Monday to the following Sunday the calendar gives 5.5.
C3_SemanaCompleta ==
    (last.op = "dias" /\ weekday(last.start) = 0 /\ last.end = last.start + 6) =>
        last.out.ret = Q(11, 2)

C3_Witness ==
    /\ last.op = "dias"
    /\ weekday(last.start) = 0
    /\ last.end = last.start + 6
    /\ weekday(last.end) = 6
    /\ last.out.ret = Q(11, 2)

\* the last call is a projection that returned a result record
Resultado(op) == last.op = op /\ last.out.ret # None

\* the rows of the table whose column col holds val, by position
Coinciden(col, val) == {i \in 1..Len(sales_df.rows) : sales_df.rows[i][col] = val}

\* the sum of MONTO over a set of positions of the table
RECURSIVE SumaEn(_)
SumaEn(I) ==
    IF I = {} THEN 0
    ELSE LET i == CHOOSE j \in I : TRUE IN sales_df.rows[i].MONTO + SumaEn(I \ {i})

\* C4 as stated: on Monday-Friday dias_transcurridos is the constant 5 and
\* the forecast is realized / 5 * 5.5.
C4_Original ==
    (Resultado("semanal") /\ weekday(hoy) < 5) =>
        /\ last.out.ret.dias_transcurridos = Num(5)
        /\ last.out.ret.proyeccion =
               Mul(Div(last.out.ret.ventas_semana, Num(5)), Q(11, 2))

\* C4 (amended): on Monday-Friday dias_transcurridos is the number of days of
\* the week up to today, weekday + 1 (1 on Monday, 5 on Friday), and the
\* forecast is realized / dias_transcurridos * 5.5; on a Wednesday a realized
\* amount of 300 gives 550.
C4_DiasHastaHoy ==
    (Resultado("semanal") /\ weekday(hoy) < 5) =>
        /\ last.out.ret.dias_transcurridos = Num(weekday(hoy) + 1)
        /\ last.out.ret.proyeccion =
               Mul(Div(last.out.ret.ventas_semana, Num(weekday(hoy) + 1)), Q(11, 2))
        /\ (weekday(hoy) = 2 /\ last.out.ret.ventas_semana = Num(300)) =>
               last.out.ret.proyeccion = Num(550)

\* a Wednesday with 300 realized in the requested week
C4_Witness ==
    /\ Resultado("semanal")
    /\ weekday(hoy) = 2
    /\ last.out.ret.ventas_semana = Num(300)
    /\ last.out.ret.dias_transcurridos = Num(3)
    /\ last.out.ret.proyeccion = Num(550)

\* C5: dias_transcurridos is at most 5 on Monday-Friday, 5.5 on Saturday and
\* 5 on Sunday; dias_laborables is always 5.5.
C5_DiasSemana ==
    Resultado("semanal") =>
        /\ weekday(hoy) < 5 => ~Gt(last.out.ret.dias_transcurridos, Num(5))
        /\ weekday(hoy) = 5 => last.out.ret.dias_transcurridos = Q(11, 2)
        /\ weekday(hoy) = 6 => last.out.ret.dias_transcurridos = Num(5)
        /\ last.out.ret.dias_laborables = Q(11, 2)

\* a weekly projection computed on a Saturday
C5_Witness ==
    /\ Resultado("semanal")
    /\ weekday(hoy) = 5
    /\ last.out.ret.dias_transcurridos = Q(11, 2)

\* C6: for a non-empty week selection ventas_semana is the sum of MONTO over
\* exactly the rows whose SEM is the requested week, venta_diaria_promedio is
\* ventas_semana / dias_transcurridos (0 when dias_transcurridos is 0) and
\* proyeccion is venta_diaria_promedio * 5.5.
C6_ProyeccionSemanal ==
    Resultado("semanal") =>
        LET r == last.out.ret
        IN  /\ r.ventas_semana = Num(SumaEn(Coinciden("SEM", last.arg)))
            /\ r.dias_transcurridos # Num(0) =>
                   /\ r.venta_diaria_promedio.d # 0
                   /\ Mul(r.venta_diaria_promedio, r.dias_transcurridos) = r.ventas_semana
            /\ r.dias_transcurridos = Num(0) => r.venta_diaria_promedio = Num(0)
            /\ r.proyeccion = Mul(r.venta_diaria_promedio, Q(11, 2))

\* a table with rows of both weeks, one of them requested
C6_Witness ==
    /\ Resultado("semanal")
    /\ Coinciden("SEM", last.arg) # {}
    /\ Coinciden("SEM", last.arg) # 1..Len(sales_df.rows)
    /\ last.out.ret.ventas_semana = Num(SumaEn(Coinciden("SEM", last.arg)))

\* C7: a projection over a period with no matching row returns None; on a
\* table with every column and at least one matching row it returns a result
\* record for the requested period.
C7_SeleccionVacia ==
    /\ (last.op = "semanal" /\ "SEM" \in sales_df.cols /\ Coinciden("SEM", last.arg) = {}) =>
           last.out.ret = None
    /\ (last.op = "mensual" /\ "MES" \in sales_df.cols /\ Coinciden("MES", last.arg) = {}) =>
           last.out.ret = None
    /\ (last.op = "semanal" /\ sales_df.cols = Columns /\ Coinciden("SEM", last.arg) # {}) =>
           (last.out.ret # None /\ last.out.ret.semana = last.arg)
    /\ (last.op = "mensual" /\ sales_df.cols = Columns /\ Coinciden("MES", last.arg) # {}) =>
           (last.out.ret # None /\ last.out.ret.mes = last.arg)

\* a monthly projection over a table that has rows, none of the requested month
C7_Witness ==
    /\ last.op = "mensual"
    /\ sales_df.cols = Columns
    /\ sales_df.rows # <<>>
    /\ Coinciden("MES", last.arg) = {}
    /\ last.out.ret = None

\* the number (1..12) of a month name
MesNumero(mes) == CHOOSE k \in 1..12 : MESES_ORDEN[k] = mes

\* the first and the last day of the month named mes, in the year of today
PrimerDiaDe(mes) == ToOrdinal(FromOrdinal(hoy).y, MesNumero(mes), 1)

UltimoDiaDe(mes) ==
    PrimerDiaDe(mes) + DaysInMonth(FromOrdinal(hoy).y, MesNumero(mes)) - 1

\* C8 as stated: dias_transcurridos is the calendar over [first day of the
\* requested month, today] and dias_totales the calendar over [first day,
\* last day] of the requested month.
C8_MesSolicitado ==
    Resultado("mensual") =>
        /\ last.out.ret.dias_transcurridos = PesoTotal(PrimerDiaDe(last.arg), hoy)
        /\ last.out.ret.dias_totales =
               PesoTotal(PrimerDiaDe(last.arg), UltimoDiaDe(last.arg))

\* C9: for a non-empty month selection venta_diaria_promedio is ventas_mes /
\* dias_transcurridos and proyeccion is venta_diaria_promedio * dias_totales;
\* when dias_transcurridos is 0 both are 0 whatever the realized amount.
C9_ProyeccionMensual ==
    Resultado("mensual") =>
        LET r == last.out.ret
        IN  /\ r.dias_transcurridos # Num(0) =>
                   /\ r.venta_diaria_promedio.d # 0
                   /\ Mul(r.venta_diaria_promedio, r.dias_transcurridos) = r.ventas_mes
            /\ r.proyeccion = Mul(r.venta_diaria_promedio, r.dias_totales)
            /\ r.dias_transcurridos = Num(0) =>
                   (r.venta_diaria_promedio = Num(0) /\ r.proyeccion = Num(0))

\* today is the 1st of a month and a Sunday, with sales in the requested month
C9_Witness ==
    /\ Resultado("mensual")
    /\ FromOrdinal(hoy).d = 1
    /\ weekday(hoy) = 6
    /\ last.out.ret.dias_transcurridos = Num(0)
    /\ Gt(last.out.ret.ventas_mes, Num(0))
    /\ last.out.ret.proyeccion = Num(0)

\* the last call is calcular_cumplimiento_metas, over tables with every column
Metas == last.op = "cumplimiento" /\ sales_df.cols = Columns /\ budget_df.cols = BudgetColumns

\* the positions of the rows of a table that belong to the requested period
EnPeriodo(t) ==
    {i \in 1..Len(t.rows) : t.rows[i].MES = last.arg[1] /\ t.rows[i].ANO = last.arg[2]}

\* the sum of a column over a set of positions of a table
RECURSIVE SumaDe(_, _, _)
SumaDe(t, col, I) ==
    IF I = {} THEN 0
    ELSE LET i == CHOOSE j \in I : TRUE
         IN  t.rows[i][col] + SumaDe(t, col, I \ {i})

\* C11 as stated: calcular_cumplimiento_metas returns None when the budget
\* rows of (mes, year) are empty or their amounts sum to zero, with a warning
\* that tells 'budget missing but sales exist' (a sales row matches the
\* period) from 'no data'; when the budget of the period sums to a non-zero
\* amount it returns a result.
C11_NuloSinPresupuesto ==
    Metas =>
        LET meta == SumaDe(budget_df, "MONTO", EnPeriodo(budget_df))
        IN  /\ meta = 0 =>
                /\ last.out.ret = None
                /\ last.out.st =
                     <<[kind |-> "warning",
                        msg |-> IF EnPeriodo(sales_df) # {}
                                THEN "sin presupuesto, con ventas"
                                ELSE "sin presupuesto ni ventas",
                        mes |-> last.arg[1], year |-> last.arg[2]]>>
            /\ meta # 0 => last.out.ret # None

\* the salespersons with a row of the requested period in a table
VdeDe(t) == {t.rows[i].VDE : i \in EnPeriodo(t)}

\* the salesperson rows of the table returned: every row but the last
Filas == {last.out.ret.dataframe[k] : k \in 1..(Len(last.out.ret.dataframe) - 1)}

\* C12: in a result of calcular_cumplimiento_metas the salespersons of the rows
\* are those with a sales row or a budget row of (mes, year); one without
\* budget row has MONTO_meta and CANTIDAD 0, one without sales row has
\* MONTO_real, Cantidad, Documento and CODIGO 0.
C12_UnionDeVendedores ==
    Resultado("cumplimiento") =>
        /\ {f.VDE : f \in Filas} = VdeDe(sales_df) \cup VdeDe(budget_df)
        /\ \A f \in Filas :
            /\ f.VDE \notin VdeDe(budget_df) =>
                   f.MONTO_meta = Num(0) /\ f.CANTIDAD = Num(0)
            /\ f.VDE \notin VdeDe(sales_df) =>
                   /\ f.MONTO_real = Num(0) /\ f.Cantidad = Num(0)
                   /\ f.Documento = Num(0) /\ f.CODIGO = Num(0)

\* a table with a salesperson found only in the sales and one found only in
\* the budget
C12_Witness ==
    /\ Resultado("cumplimiento")
    /\ \E f \in Filas : f.VDE \notin VdeDe(budget_df)
    /\ \E f \in Filas : f.VDE \notin VdeDe(sales_df)

\* the positions of the rows of a table that belong to the requested period
\* and to salesperson v
DelVendedor(t, v) == {i \in EnPeriodo(t) : t.rows[i].VDE = v}

\* the number of distinct values of a column over a set of positions
Distintos(t, col, I) == Cardinality({t.rows[i][col] : i \in I})

\* C13: in every salesperson row the realized and target values are the sums
\* over that salesperson's rows of (mes, year), and with non-zero
\* denominators % Cumplimiento Ventas = MONTO_real / MONTO_meta * 100,
\* % Cumplimiento Cajas = Cantidad / CANTIDAD * 100, Ticket Promedio =
\* MONTO_real / distinct invoices, Factura Promedio = MONTO_real / distinct
\* clients; target 1000/10 and one sale 600/5 with one invoice and one client
\* give 60, 50, 600, 600.
C13_RazonesPorFila ==
    Resultado("cumplimiento") =>
        \A f \in Filas :
            LET real == SumaDe(sales_df, "MONTO", DelVendedor(sales_df, f.VDE))
                cant == SumaDe(sales_df, "Cantidad", DelVendedor(sales_df, f.VDE))
                docs == Distintos(sales_df, "Documento", DelVendedor(sales_df, f.VDE))
                clis == Distintos(sales_df, "CODIGO", DelVendedor(sales_df, f.VDE))
                meta == SumaDe(budget_df, "MONTO", DelVendedor(budget_df, f.VDE))
                cajas == SumaDe(budget_df, "CANTIDAD", DelVendedor(budget_df, f.VDE))
            IN  /\ f.MONTO_real = Num(real) /\ f.Cantidad = Num(cant)
                /\ f.Documento = Num(docs) /\ f.CODIGO = Num(clis)
                /\ f.MONTO_meta = Num(meta) /\ f.CANTIDAD = Num(cajas)
                /\ meta # 0 => f.pct_cumplimiento_ventas = Q(real * 100, meta)
                /\ cajas # 0 => f.pct_cumplimiento_cajas = Q(cant * 100, cajas)
                /\ docs # 0 => f.ticket_promedio = Q(real, docs)
                /\ clis # 0 => f.factura_promedio = Q(real, clis)
                /\ (meta = 1000 /\ cajas = 10 /\ real = 600 /\ cant = 5 /\ docs = 1 /\ clis = 1) =>
                       /\ f.pct_cumplimiento_ventas = Num(60)
                       /\ f.pct_cumplimiento_cajas = Num(50)
                       /\ f.ticket_promedio = Num(600)
                       /\ f.factura_promedio = Num(600)

\* the example: target 1000/10, one sale of 600/5
C13_Witness ==
    /\ Resultado("cumplimiento")
    /\ Len(sales_df.rows) = 1 /\ Len(budget_df.rows) = 1
    /\ \E f \in Filas :
        /\ f.MONTO_meta = Num(1000) /\ f.CANTIDAD = Num(10)
        /\ f.MONTO_real = Num(600) /\ f.Cantidad = Num(5)
        /\ f.pct_cumplimiento_ventas = Num(60)
        /\ f.ticket_promedio = Num(600)

\* the TOTAL row of the table returned: its last row
Total == last.out.ret.dataframe[Len(last.out.ret.dataframe)]

\* the sum of % Cumplimiento Ventas over the first k rows of the table returned
RECURSIVE SumaPct(_)
SumaPct(k) ==
    IF k = 0 THEN Num(0)
    ELSE Add(last.out.ret.dataframe[k].pct_cumplimiento_ventas, SumaPct(k - 1))

\* every salesperson row has a finite % Cumplimiento Ventas
PctFinitos == \A f \in Filas : f.pct_cumplimiento_ventas.d # 0

\* the number of salesperson rows
NFilas == Len(last.out.ret.dataframe) - 1

\* C14: the four ratios of the TOTAL row are recomputed from the summed
\* columns: % Cumplimiento Ventas = sum of MONTO_real / sum of MONTO_meta *
\* 100, likewise the quantity percentage and the two averages; where the sum
\* or the mean of the per-row percentages differs from that quotient, the
\* TOTAL row does not hold it.
C14_TotalRecalculado ==
    Resultado("cumplimiento") =>
        LET real == SumaDe(sales_df, "MONTO", EnPeriodo(sales_df))
            cant == SumaDe(sales_df, "Cantidad", EnPeriodo(sales_df))
            meta == SumaDe(budget_df, "MONTO", EnPeriodo(budget_df))
            cajas == SumaDe(budget_df, "CANTIDAD", EnPeriodo(budget_df))
            docs == Cardinality({<<sales_df.rows[i].VDE, sales_df.rows[i].Documento>> :
                                    i \in EnPeriodo(sales_df)})
            clis == Cardinality({<<sales_df.rows[i].VDE, sales_df.rows[i].CODIGO>> :
                                    i \in EnPeriodo(sales_df)})
        IN  /\ Total.MONTO_real = Num(real) /\ Total.MONTO_meta = Num(meta)
            /\ Total.Cantidad = Num(cant) /\ Total.CANTIDAD = Num(cajas)
            /\ Total.Documento = Num(docs) /\ Total.CODIGO = Num(clis)
            /\ Total.pct_cumplimiento_ventas = Q(real * 100, meta)
            /\ Total.pct_cumplimiento_cajas = Q(cant * 100, cajas)
            /\ Total.ticket_promedio = Q(real, docs)
            /\ Total.factura_promedio = Q(real, clis)
            /\ (PctFinitos /\ SumaPct(NFilas) # Q(real * 100, meta)) =>
                   Total.pct_cumplimiento_ventas # SumaPct(NFilas)
            /\ (PctFinitos /\ Div(SumaPct(NFilas), Num(NFilas)) # Q(real * 100, meta)) =>
                   Total.pct_cumplimiento_ventas # Div(SumaPct(NFilas), Num(NFilas))

\* two salespersons with different targets: the quotient of the sums is
\* neither the sum nor the mean of the two percentages
C14_Witness ==
    /\ Resultado("cumplimiento")
    /\ NFilas = 2 /\ PctFinitos
    /\ Total.pct_cumplimiento_ventas # SumaPct(NFilas)
    /\ Total.pct_cumplimiento_ventas # Div(SumaPct(NFilas), Num(NFilas))
    /\ Total.pct_cumplimiento_ventas = Num(40)

\* C15: a result of calcular_cumplimiento_metas holds one row for each
\* salesperson of the period, none twice even when the raw tables have
\* several rows of one salesperson (which are summed), then one row labelled
\* TOTAL, the last of the table; the record echoes mes and year.
C15_UnaFilaPorVendedor ==
    Resultado("cumplimiento") =>
        LET df == last.out.ret.dataframe
        IN  /\ Len(df) = Cardinality(VdeDe(sales_df) \cup VdeDe(budget_df)) + 1
            /\ df[Len(df)].VDE = "TOTAL"
            /\ \A k \in 1..(Len(df) - 1) : df[k].VDE # "TOTAL"
            /\ \A j, k \in 1..(Len(df) - 1) : df[j].VDE = df[k].VDE => j = k
            /\ \A k \in 1..(Len(df) - 1) :
                /\ df[k].MONTO_real =
                       Num(SumaDe(sales_df, "MONTO", DelVendedor(sales_df, df[k].VDE)))
                /\ df[k].MONTO_meta =
                       Num(SumaDe(budget_df, "MONTO", DelVendedor(budget_df, df[k].VDE)))
            /\ last.out.ret.mes = last.arg[1]
            /\ last.out.ret.year = last.arg[2]

\* two sales rows of one salesperson and two budget rows of another
C15_Witness ==
    /\ Resultado("cumplimiento")
    /\ \E v \in VdeDe(sales_df) : Cardinality(DelVendedor(sales_df, v)) = 2
    /\ \E v \in VdeDe(budget_df) : Cardinality(DelVendedor(budget_df, v)) = 2
    /\ Len(last.out.ret.dataframe) = 3

\* C16 as stated: of two salesperson rows of a table with the same target
\* amount, the one with the larger realized amount has the strictly larger
\* % Cumplimiento Ventas.
C16_Original ==
    Resultado("cumplimiento") =>
        \A f, g \in Filas :
            (f.MONTO_meta = g.MONTO_meta /\ Gt(f.MONTO_real, g.MONTO_real)) =>
                Gt(f.pct_cumplimiento_ventas, g.pct_cumplimiento_ventas)

\* C16 (amended): of two salesperson rows of a table with the same non-zero
\* target amount, the one with the larger realized amount has the strictly
\* larger % Cumplimiento Ventas.
C16_Monotonia ==
    Resultado("cumplimiento") =>
        \A f, g \in Filas :
            (/\ f.MONTO_meta = g.MONTO_meta
             /\ f.MONTO_meta # Num(0)
             /\ Gt(f.MONTO_real, g.MONTO_real)) =>
                Gt(f.pct_cumplimiento_ventas, g.pct_cumplimiento_ventas)

\* two salespersons with the same target of 1000, one of whom sold more
C16_Witness ==
    /\ Resultado("cumplimiento")
    /\ \E f, g \in Filas :
        /\ f.MONTO_meta = Num(1000) /\ g.MONTO_meta = Num(1000)
        /\ Gt(f.MONTO_real, g.MONTO_real)
        /\ Gt(f.pct_cumplimiento_ventas, g.pct_cumplimiento_ventas)

\* a value that is inf or nan
Indefinido(x) == x.d = 0

\* the rows of an attainment table in which every ratio of denominator zero
\* is inf or nan
RazonesIndefinidas(filas) ==
    \A f \in filas :
        /\ f.MONTO_meta = Num(0) => Indefinido(f.pct_cumplimiento_ventas)
        /\ f.CANTIDAD = Num(0) => Indefinido(f.pct_cumplimiento_cajas)
        /\ f.Documento = Num(0) => Indefinido(f.ticket_promedio)
        /\ f.CODIGO = Num(0) => Indefinido(f.factura_promedio)

\* the averages of calcular_kpis_basicos of denominator zero are inf or nan
KpisIndefinidos ==
    /\ last.out.ret.transacciones = 0 => Indefinido(last.out.ret.ticket_promedio)
    /\ last.out.ret.clientes_unicos = 0 =>
           /\ Indefinido(last.out.ret.factura_promedio)
           /\ Indefinido(last.out.ret.frecuencia_compra)

\* C17 as stated: in each of the four operations a ratio or average of
\* denominator zero is returned as inf or nan, never as 0.
C17_Original ==
    /\ Resultado("cumplimiento") => RazonesIndefinidas(Filas \cup {Total})
    /\ Resultado("kpis") => KpisIndefinidos
    /\ Resultado("semanal") =>
           (last.out.ret.dias_transcurridos = Num(0) =>
                Indefinido(last.out.ret.venta_diaria_promedio))
    /\ Resultado("mensual") =>
           (last.out.ret.dias_transcurridos = Num(0) =>
                Indefinido(last.out.ret.venta_diaria_promedio))

\* C17 (amended): in calcular_kpis_basicos and in the salesperson rows of a
\* table of calcular_cumplimiento_metas a ratio or average of denominator
\* zero is inf or nan, never 0; the two projections return 0 for
\* venta_diaria_promedio when dias_transcurridos is 0; the TOTAL row of a
\* table has no zero denominator, because with one the operation reports an
\* error and returns None.
C17_DenominadorCero ==
    /\ Resultado("cumplimiento") =>
           /\ RazonesIndefinidas(Filas)
           /\ Total.MONTO_meta # Num(0) /\ Total.CANTIDAD # Num(0)
           /\ Total.Documento # Num(0) /\ Total.CODIGO # Num(0)
    /\ (/\ Metas
        /\ SumaDe(budget_df, "MONTO", EnPeriodo(budget_df)) # 0
        /\ \/ SumaDe(budget_df, "CANTIDAD", EnPeriodo(budget_df)) = 0
           \/ EnPeriodo(sales_df) = {}) =>
           /\ last.out.ret = None
           /\ Len(last.out.st) = 1 /\ last.out.st[1].kind = "error"
    /\ Resultado("kpis") => KpisIndefinidos
    /\ Resultado("semanal") =>
           (last.out.ret.dias_transcurridos = Num(0) =>
                last.out.ret.venta_diaria_promedio = Num(0))
    /\ Resultado("mensual") =>
           (last.out.ret.dias_transcurridos = Num(0) =>
                last.out.ret.venta_diaria_promedio = Num(0))

\* a salesperson without budget row who sold: an infinite percentage
C17_Witness ==
    /\ Resultado("cumplimiento")
    /\ \E f \in Filas :
        /\ f.MONTO_meta = Num(0) /\ f.MONTO_real # Num(0)
        /\ f.pct_cumplimiento_ventas = [n |-> 1, d |-> 0]

\* numpy's nan
NaN == [n |-> 0, d |-> 0]

\* C18: calcular_kpis_basicos on a table with every column and no row returns
\* a record with clientes_unicos 0, transacciones 0 and frecuencia_compra,
\* ticket_promedio and factura_promedio nan; it reports no error and does not
\* return None.
C18_KpisTablaVacia ==
    (last.op = "kpis" /\ sales_df.cols = Columns /\ sales_df.rows = <<>>) =>
        /\ last.out.ret # None
        /\ last.out.st = <<>>
        /\ last.out.ret.clientes_unicos = 0
        /\ last.out.ret.transacciones = 0
        /\ last.out.ret.frecuencia_compra = NaN
        /\ last.out.ret.ticket_promedio = NaN
        /\ last.out.ret.factura_promedio = NaN

\* the basic KPIs asked of an empty table
C18_Witness ==
    /\ last.op = "kpis" /\ sales_df.cols = Columns /\ sales_df.rows = <<>>
    /\ last.out.ret # None
    /\ last.out.ret.ticket_promedio = NaN

\* the last call reads column c of the sales table: the columns an operation
\* reads before and after its early return
LeeVentas(c) ==
    \/ last.op = "kpis" /\ c \in {"CODIGO", "Documento", "MONTO"}
    \/ last.op = "semanal" /\
           (c = "SEM" \/ (c = "MONTO" /\ Coinciden("SEM", last.arg) # {}))
    \/ last.op = "mensual" /\
           (c = "MES" \/ (c \in {"MONTO", "Documento", "CODIGO"} /\ Coinciden("MES", last.arg) # {}))
    \/ last.op = "cumplimiento" /\ budget_df.cols = BudgetColumns /\
           (\/ c \in {"MES", "ANO"}
            \/ /\ c \in {"VDE", "MONTO", "Cantidad", "Documento", "CODIGO"}
               /\ SumaDe(budget_df, "MONTO", EnPeriodo(budget_df)) # 0)

\* the last call reads column c of the budget table
LeePresupuesto(c) == last.op = "cumplimiento" /\ c \in BudgetColumns

\* a failure that reaches the caller: the call gives back no value
Propagado == "ret" \notin DOMAIN last.out

\* C19 as stated: an operation that reads a column its table lacks aborts
\* with a failure that reaches the caller and names the column; it returns
\* neither a result nor None.
C19_Original ==
    \A c \in Columns \cup BudgetColumns :
        (\/ c \notin sales_df.cols /\ LeeVentas(c)
         \/ c \notin budget_df.cols /\ LeePresupuesto(c)) => Propagado

\* C19 (amended): an operation that reads a column its table lacks catches
\* the failure itself: it sends one error message that names the column to
\* st.error and returns None; nothing reaches the caller as a failure.
C19_ColumnaFaltante ==
    \A c \in Columns \cup BudgetColumns :
        (\/ c \notin sales_df.cols /\ LeeVentas(c)
         \/ c \notin budget_df.cols /\ LeePresupuesto(c)) =>
            /\ ~Propagado
            /\ last.out.ret = None
            /\ last.out.st = <<[kind |-> "error", op |-> last.op, campo |-> c]>>

\* the attainment asked of a budget table without CANTIDAD
C19_Witness ==
    /\ last.op = "cumplimiento"
    /\ "CANTIDAD" \notin budget_df.cols
    /\ last.out.ret = None
    /\ last.out.st = <<[kind |-> "error", op |-> "cumplimiento", campo |-> "CANTIDAD"]>>

\* C20: no call of the four operations changes the engine's sales_df or
\* budget_df (which are also the tables passed as arguments): after any
\* sequence of calls they hold the same rows and values, so a call finds the
\* tables the engine was constructed with whatever calls came before.
C20_TablasIntactas == [][sales_df' = sales_df /\ budget_df' = budget_df]_vars

\* an attainment table computed from tables that hold rows
C20_Witness ==
    /\ Resultado("cumplimiento")
    /\ sales_df.rows # <<>> /\ budget_df.rows # <<>>
    /\ Len(last.out.ret.dataframe) >= 2

\* C21 as stated: no call of the four operations sends anything to the
\* display; whatever the path, st is left as it was and the condition only
\* travels back in the value returned.
C21_SinSalida ==
    last.op \in {"cumplimiento", "kpis", "semanal", "mensual"} => last.out.st = <<>>

\* C22: the loop inside calcular_proyeccion_mensual and the generator sum of
\* main return the same number of working days for every pair (start, end),
\* start > end included: what either returned is what the other returns for
\* the same pair.
C22_DosCalendarios ==
    /\ last.op = "dias" =>
           last.out.ret = main_calcular_dias_laborables(last.start, last.end)
    /\ last.op = "dias_main" =>
           last.out.ret = calcular_dias_laborables(last.start, last.end)

\* main's implementation over more than a week, the loop's value being 5.5
\* or more
C22_Witness ==
    /\ last.op = "dias_main"
    /\ last.end - last.start >= 7
    /\ Gt(last.out.ret, Num(5))
    /\ last.out.ret = calcular_dias_laborables(last.start, last.end)

\* C23: for every date today, ultimo_dia_mes = (first day of today's month +
\* 32 days) with the day replaced by 1, minus one day, is the last calendar
\* day of today's month: it lies in today's month and year, its day number is
\* the length of that month, and the day after it is the 1st of the next
\* month.
C23_UltimoDiaDelMes ==
    last.op = "requerimiento" =>
        LET t == FromOrdinal(hoy)
            u == FromOrdinal(last.out.ret.ultimo_dia_mes)
            s == FromOrdinal(last.out.ret.ultimo_dia_mes + 1)
        IN  /\ u.y = t.y /\ u.m = t.m
            /\ u.d = DaysInMonth(t.y, t.m)
            /\ s.d = 1
            /\ s.m = (IF t.m = 12 THEN 1 ELSE t.m + 1)
            /\ s.y = (IF t.m = 12 THEN t.y + 1 ELSE t.y)
            /\ (t.m = 2 /\ t.y = 2024) => u.d = 29
            /\ (t.m = 2 /\ t.y = 2023) => u.d = 28

\* a day of December: the 32 days added reach into the next year
C23_Witness ==
    /\ last.op = "requerimiento"
    /\ FromOrdinal(hoy).m = 12
    /\ FromOrdinal(last.out.ret.ultimo_dia_mes).d = 31
    /\ FromOrdinal(last.out.ret.ultimo_dia_mes + 1).y = FromOrdinal(hoy).y + 1

\* a >= b
Ge(a, b) == ~Gt(b, a)

PrimerDiaDeHoy == hoy - (FromOrdinal(hoy).d - 1)

UltimoDiaDeHoy == PrimerDiaDeHoy + DaysInMonth(FromOrdinal(hoy).y, FromOrdinal(hoy).m) - 1

\* the weekly count of elapsed days as a function of today's weekday
DiasDeLaSemana ==
    IF weekday(hoy) = 5 THEN Q(11, 2)
    ELSE IF weekday(hoy) = 6 THEN Num(5)
    ELSE Num(weekday(hoy) + 1)

\* C26: the day counts of both projections are functions of today alone:
\* whatever month is requested and whatever rows the table holds,
\* calcular_proyeccion_mensual returns the counts of today's month, and
\* whatever week is requested calcular_proyeccion_semanal returns the count
\* of today's weekday; so two calls on one day return the same counts.
C26_SoloHoy ==
    /\ Resultado("mensual") =>
           /\ last.out.ret.dias_transcurridos = PesoTotal(PrimerDiaDeHoy, hoy)
           /\ last.out.ret.dias_totales = PesoTotal(PrimerDiaDeHoy, UltimoDiaDeHoy)
    /\ Resultado("semanal") =>
           last.out.ret.dias_transcurridos = DiasDeLaSemana

\* Febrero requested on a day of January past the 1st
C26_Witness ==
    /\ Resultado("mensual")
    /\ last.arg = "Febrero"
    /\ FromOrdinal(hoy).m = 1 /\ FromOrdinal(hoy).d > 1
    /\ last.out.ret.dias_totales = Num(24)

\* C27: in every table calcular_cumplimiento_metas returns the MONTO_meta of
\* the TOTAL row is not zero (budget amounts are not negative, so it is
\* positive) and the TOTAL % Cumplimiento Ventas is a finite number, also
\* when a salesperson row has a target of zero.
C27_MetaTotalNoNula ==
    Resultado("cumplimiento") =>
        /\ Gt(Total.MONTO_meta, Num(0))
        /\ ~Indefinido(Total.pct_cumplimiento_ventas)
        /\ Total.pct_cumplimiento_ventas =
               Mul(Div(Total.MONTO_real, Total.MONTO_meta), Num(100))

\* a table with a salesperson row of target zero and an undefined percentage,
\* above a finite TOTAL
C27_Witness ==
    /\ Resultado("cumplimiento")
    /\ \E f \in Filas :
        f.MONTO_meta = Num(0) /\ Indefinido(f.pct_cumplimiento_ventas)
    /\ ~Indefinido(Total.pct_cumplimiento_ventas)
    /\ Gt(Total.pct_cumplimiento_ventas, Num(0))

\* the form carried a configured user together with that user's password
FormularioValido(f) ==
    \E u \in DOMAIN USUARIOS : f.usuario = u /\ f.password = USUARIOS[u].password

\* the run recorded in last was a submission of the login form
IntentoDeIngreso == last.op = "main" /\ "enviar" \in DOMAIN last.arg /\ last.arg.enviar

\* C28: a run of main loads data only when autenticar returned True,
\* autenticar returns True only in a run that began (and ends) with the key
\* autenticado present and true, and a submitted login form with an unknown
\* user or a wrong password leaves the session state as it was, hence not
\* authenticated
C28_SoloAutenticado ==
    last.op = "main" =>
        /\ last.out.cargado => last.out.autenticar = "True"
        /\ last.out.autenticar = "True" =>
              /\ "autenticado" \in DOMAIN last.antes /\ last.antes.autenticado
              /\ "autenticado" \in DOMAIN session_state /\ session_state.autenticado
        /\ (IntentoDeIngreso /\ ~FormularioValido(last.arg)) =>
              /\ session_state = last.antes
              /\ "autenticado" \notin DOMAIN session_state
              /\ last.out.autenticar = "False"

\* a run with a session that loaded the tables and called the engine
C28_Witness ==
    /\ last.op = "main"
    /\ last.out.autenticar = "True"
    /\ last.out.cargado
    /\ last.out.cumplimiento # SinLlamada

ClavesDeSesion == {"autenticado", "usuario_actual", "filtro_vendedor"}

\* C29: in every reachable session state the keys autenticado,
\* usuario_actual and filtro_vendedor are all absent, or all present with
\* autenticado true, usuario_actual a key of USUARIOS and filtro_vendedor
\* the filter configured for that user; a run that logged out leaves none
\* of the three, and a run that logged a user in leaves that user's filter
\* whoever was logged in before
C29_ClavesJuntas ==
    /\ \/ DOMAIN session_state \cap ClavesDeSesion = {}
       \/ /\ ClavesDeSesion \subseteq DOMAIN session_state
          /\ session_state.autenticado
          /\ \E u \in DOMAIN USUARIOS :
                /\ session_state.usuario_actual = u
                /\ session_state.filtro_vendedor = USUARIOS[u].filtro
    /\ (last.op = "main" /\ "cerrar" \in DOMAIN last.arg /\ last.arg.cerrar) =>
          DOMAIN session_state \cap ClavesDeSesion = {}
    /\ (IntentoDeIngreso /\ FormularioValido(last.arg)) =>
          /\ session_state.usuario_actual = last.arg.usuario
          /\ session_state.filtro_vendedor = USUARIOS[last.arg.usuario].filtro

\* a user logged in after another user, with another filter, had logged out
C29_Witness ==
    /\ IntentoDeIngreso
    /\ FormularioValido(last.arg)
    /\ last.previo \in DOMAIN USUARIOS
    /\ last.previo # last.arg.usuario
    /\ session_state.filtro_vendedor # USUARIOS[last.previo].filtro

\* the run recorded in last constructed KPICalculator
MotorConstruido == last.op = "main" /\ sales_df # SinMotor

\* the positions of the rows of a loaded table that belong to salesperson
\* vde and to the selection of the run: its year, its month when delMes, and
\* for the sales its selected salespersons
DelFiltro(t, vde, delMes, ventas) ==
    {i \in 1..Len(t.rows) :
        /\ t.rows[i].VDE = vde
        /\ t.rows[i].ANO = last.arg.year
        /\ delMes => t.rows[i].MES = last.arg.mes
        /\ ventas => t.rows[i].VDE \in last.arg.vendedores}

\* C30: when the session's filter is not null, every row of the sales and
\* budget tables KPICalculator was constructed with has VDE equal to the
\* filter; the attainment table returned has no row of another salesperson
\* and its TOTAL row sums only the loaded rows of that salesperson, the
\* KPIs count only that salesperson's clients and invoices, and the weekly
\* and monthly projections add up only that salesperson's sales. With the
\* null filter the engine is constructed with the tables as loaded.
C30_SoloSuVendedor ==
    MotorConstruido =>
        LET filtro == session_state.filtro_vendedor
            cumplimiento == last.out.cumplimiento
            kpis_basicos == last.out.kpis
            semanal == last.out.semanal
            mensual == last.out.mensual
        IN  IF filtro = SinFiltro
            THEN sales_df = last.arg.ventas /\ budget_df = last.arg.presupuesto
            ELSE /\ \A i \in 1..Len(sales_df.rows) : sales_df.rows[i].VDE = filtro
                 /\ \A i \in 1..Len(budget_df.rows) : budget_df.rows[i].VDE = filtro
                 /\ (cumplimiento # SinLlamada /\ cumplimiento.ret # None) =>
                       LET tabla == cumplimiento.ret.dataframe
                           total == tabla[Len(tabla)]
                       IN  /\ \A k \in 1..(Len(tabla) - 1) : tabla[k].VDE = filtro
                           /\ total.MONTO_real =
                                 Num(SumaDe(last.arg.ventas, "MONTO",
                                            DelFiltro(last.arg.ventas, filtro, TRUE, TRUE)))
                           /\ total.MONTO_meta =
                                 Num(SumaDe(last.arg.presupuesto, "MONTO",
                                            DelFiltro(last.arg.presupuesto, filtro, TRUE, FALSE)))
                 /\ (kpis_basicos # SinLlamada /\ kpis_basicos.ret # None) =>
                       /\ kpis_basicos.ret.clientes_unicos =
                             Cardinality({last.arg.ventas.rows[i].CODIGO :
                                            i \in DelFiltro(last.arg.ventas, filtro, FALSE, TRUE)})
                       /\ kpis_basicos.ret.transacciones =
                             Cardinality({last.arg.ventas.rows[i].Documento :
                                            i \in DelFiltro(last.arg.ventas, filtro, FALSE, TRUE)})
                 /\ (semanal # SinLlamada /\ semanal.ret # None) =>
                       semanal.ret.ventas_semana =
                          Num(SumaDe(last.arg.ventas, "MONTO",
                                     {i \in DelFiltro(last.arg.ventas, filtro, FALSE, TRUE) :
                                        last.arg.ventas.rows[i].SEM = last.arg.semana}))
                 /\ (mensual # SinLlamada /\ mensual.ret # None) =>
                       mensual.ret.ventas_mes =
                          Num(SumaDe(last.arg.ventas, "MONTO",
                                     DelFiltro(last.arg.ventas, filtro, TRUE, TRUE)))

\* VDE1 got an attainment table although the loaders returned sales and
\* budget rows of VDE_2 for the same month
C30_Witness ==
    /\ MotorConstruido
    /\ session_state.filtro_vendedor = "VDE_1"
    /\ last.out.cumplimiento # SinLlamada
    /\ last.out.cumplimiento.ret # None
    /\ \E i \in 1..Len(last.arg.ventas.rows) :
          last.arg.ventas.rows[i].VDE = "VDE_2" /\ last.arg.ventas.rows[i].MES = last.arg.mes
    /\ \E i \in 1..Len(last.arg.presupuesto.rows) : last.arg.presupuesto.rows[i].VDE = "VDE_2"

=============================================================================
